---------------------------- MODULE Spec2Model ----------------------------
(***************************************************************************)
(* A model of git-post: the Streamlit session of app.py (fetch, select,    *)
(* generate, refine, clear chat, regenerate), the GitHub activity fetch of *)
(* github_utils.py and the Ollama invocation of ollama_generator.py.       *)
(*                                                                         *)
(* Representation of Python values:                                        *)
(*   - a str is the sequence of its lines (what str.split('\n') returns),  *)
(*     so it is never the empty sequence and "" is <<"">>; a line is a TLA+ *)
(*     string;                                                             *)
(*   - None, where a str or a list is expected, is <<>>;                  *)
(*   - an optional one-line string (README excerpt, language) is <<>> for  *)
(*     None and <<s>> for the string s;                                    *)
(*   - a date is its day number.                                           *)
(***************************************************************************)
EXTENDS Integers, Sequences, FiniteSets, TLC

VARIABLES
    github_data,        \* st.session_state.github_data (None is <<>>)
    generated_post,     \* st.session_state.generated_post (None is <<>>)
    chat_history,       \* st.session_state.chat_history
    spotlight_projects, \* st.session_state.spotlight_projects
    pc,                 \* where the running script is: "idle", "fetch", "generate", "refine"
    fetch,              \* the locals of fetch_github_activity while its loop runs
    netlog,             \* the listing requests the last fetch issued, in order
    req                 \* the last request of the user and what became of it

vars == <<github_data, generated_post, chat_history, spotlight_projects,
          pc, fetch, netlog, req>>

None == <<>>

(***************************************************************************)
(* Bounds of the model.                                                    *)
(***************************************************************************)
MaxRepos == 3       \* repositories on a listing page
MaxHistory == 2     \* chat turns kept before the model stops sending messages

-----------------------------------------------------------------------------
(***************************************************************************)
(* Python str helpers, on the lines the model uses.                        *)
(***************************************************************************)

\* str.lstrip() of one line
LStrip(l) ==
    CASE l = " " -> ""
      [] l = " Hello " -> "Hello "
      [] l = " Hello" -> "Hello"
      [] OTHER -> l

\* str.rstrip() of one line
RStrip(l) ==
    CASE l = " " -> ""
      [] l = " Hello " -> " Hello"
      [] l = "Hello " -> "Hello"
      [] OTHER -> l

\* str.strip() of one line
LineStrip(l) == RStrip(LStrip(l))

RECURSIVE Reverse(_)
Reverse(s) == IF s = <<>> THEN <<>> ELSE Append(Reverse(Tail(s)), Head(s))

RECURSIVE DropBlank(_)
DropBlank(t) ==
    IF t = <<>> THEN <<>>
    ELSE IF LineStrip(Head(t)) = "" THEN DropBlank(Tail(t)) ELSE t

\* str.strip() of a whole text: leading and trailing whitespace, line breaks included
StrStrip(t) ==
    LET a == DropBlank(t)
        b == IF a = <<>> THEN <<>> ELSE <<LStrip(Head(a))>> \o Tail(a)
        c == DropBlank(Reverse(b))
    IN  IF c = <<>> THEN <<"">> ELSE Reverse(<<RStrip(Head(c))>> \o Tail(c))

\* Python truthiness of a str or None, and of a list or None
Truthy(t) == t # None /\ t # <<"">>

-----------------------------------------------------------------------------
(***************************************************************************)
(* ollama_generator.py                                                     *)
(***************************************************************************)

\* What an "ollama list" process can do: exit with a status and a standard output
\* (lines of whitespace-separated tokens), or not run: the executable is missing
\* ("notfound", as is a timeout for the code) or cannot be started ("oserror").
Header == <<"NAME", "ID", "SIZE", "MODIFIED">>
ModelLine(m) == <<m, "abc123", "4.1 GB", "2 days ago">>
ListStdouts ==
    { <<Header>>,
      <<Header, ModelLine("mistral:latest")>>,
      <<Header, <<>>, ModelLine("gemma:2b"), ModelLine("llama3"), <<>>>>,
      << <<>> >> }
ListOutcomes ==
    [kind : {"exit"}, rc : {0}, stdout : ListStdouts]
      \cup [kind : {"exit", "notfound"}, rc : {1}, stdout : { << <<>> >> }]
\* check_ollama_available reads the exit status alone
ProbeOutcomes ==
    [kind : {"exit"}, rc : {0}, stdout : { <<Header>> }]
      \cup [kind : {"exit", "notfound", "oserror"}, rc : {1}, stdout : { << <<>> >> }]

\* check_ollama_available taking any exit for "available"
check_ollama_available_AnyExit(p) ==
    CASE p.kind = "exit" -> [raised |-> FALSE, available |-> TRUE]
      [] p.kind = "notfound" -> [raised |-> FALSE, available |-> FALSE]
      [] OTHER -> [raised |-> TRUE, available |-> FALSE]

\* check_ollama_available: (returncode == 0) of the probe; a timeout or a missing
\* executable is "not available"; any other exception propagates
check_ollama_available(p) ==
    CASE p.kind = "exit" -> [raised |-> FALSE, available |-> p.rc = 0]
      [] p.kind = "notfound" -> [raised |-> FALSE, available |-> FALSE]
      [] OTHER -> [raised |-> TRUE, available |-> FALSE]

RECURSIVE DropBlankRows(_)
DropBlankRows(rows) ==
    IF rows = <<>> THEN <<>>
    ELSE IF Head(rows) = <<>> THEN DropBlankRows(Tail(rows)) ELSE rows

RECURSIVE FirstTokens(_)
FirstTokens(rows) ==
    IF rows = <<>> THEN <<>>
    ELSE IF Head(rows) = <<>> THEN FirstTokens(Tail(rows))
    ELSE <<Head(Head(rows))>> \o FirstTokens(Tail(rows))

\* get_available_models: the first token of every non-blank line after the header
\* of the stripped output; [] on a non-zero exit and on any exception
get_available_models(q) ==
    IF q.kind = "exit" /\ q.rc = 0
    THEN LET stripped == Reverse(DropBlankRows(Reverse(DropBlankRows(q.stdout))))
             lines == IF stripped = <<>> THEN <<>> ELSE Tail(stripped)
         IN  FirstTokens(lines)
    ELSE <<>>

\* A line holding a code fence, three backquotes
Fence == "[three backquotes]"

\* What an "ollama run" process can do once spawned: exit 0 with a standard
\* output, exit non-zero with a standard error, or fail to start.
RunStdouts ==
    { <<"Great month of coding">>,
      <<Fence, "Here's your post:", " Hello ", "", "", "", "#BuildInPublic", Fence, "">>,
      <<" ", "">> }
RunStderrs == { <<"Error: model 'mistral' not found", "">> }
RunOutcomes ==
    [kind : {"exit0"}, out : RunStdouts]
      \cup [kind : {"nonzero"}, out : RunStderrs]
      \cup [kind : {"oserror"}, out : { <<"">> }]

ErrorPrefix == "[x] Ollama Error: "

\* call_ollama, from the return of subprocess.run on: the stripped standard output,
\* or for a non-zero exit (CalledProcessError) the error text as an ordinary return
\* value; any other exception propagates
call_ollama(o) ==
    CASE o.kind = "exit0" -> [raised |-> FALSE, value |-> StrStrip(o.out)]
      [] o.kind = "nonzero" ->
            LET e == StrStrip(o.out)
            IN  [raised |-> FALSE, value |-> <<ErrorPrefix \o Head(e)>> \o Tail(e)]
      [] OTHER -> [raised |-> TRUE, value |-> None]

\* any(pattern in line for pattern in skip_patterns)
ContainsSkipPattern(l) ==
    l \in {Fence, "---", "Here's your post:", "Here is the post"}

RECURSIVE KeptLines(_)
KeptLines(lines) ==
    IF lines = <<>> THEN <<>>
    ELSE LET l == LineStrip(Head(lines))
         IN  IF l # "" /\ ~ContainsSkipPattern(l)
             THEN <<l>> \o KeptLines(Tail(lines))
             ELSE KeptLines(Tail(lines))

\* '\n'.join(lines)
JoinLines(lines) == IF lines = <<>> THEN <<"">> ELSE lines

\* '\n\n\n' in text: two empty lines in a row with a line before and a line after
HasTripleBreak(t) == \E j \in 1..(Len(t) - 3) : t[j + 1] = "" /\ t[j + 2] = ""

RECURSIVE CollapseBreaks(_)
\* while '\n\n\n' in text: text = text.replace('\n\n\n', '\n\n')
CollapseBreaks(t) ==
    IF ~HasTripleBreak(t) THEN t
    ELSE LET j == CHOOSE k \in 1..(Len(t) - 3) :
                    /\ t[k + 1] = "" /\ t[k + 2] = ""
                    /\ \A m \in 1..(k - 1) : ~(t[m + 1] = "" /\ t[m + 2] = "")
         IN  CollapseBreaks(SubSeq(t, 1, j) \o SubSeq(t, j + 2, Len(t)))

clean_generated_post(raw_output) ==
    StrStrip(CollapseBreaks(JoinLines(KeptLines(raw_output))))

\* A record of github_data: the keys the prompt and the session read ('description',
\* 'stars' and 'topics' are copied from the listing and only displayed)
Entry(repo, url, commits, readme, language) ==
    [repo |-> repo, url |-> url, commits |-> commits, readme |-> readme,
     language |-> language]

RECURSIVE JoinWith(_, _)
\* sep.join(strings), for one-line strings
JoinWith(sep, strings) ==
    IF strings = <<>> THEN ""
    ELSE IF Len(strings) = 1 THEN Head(strings)
    ELSE Head(strings) \o sep \o JoinWith(sep, Tail(strings))

\* the lines of one project_info
ProjectInfo(item) ==
    LET first == "**" \o item.repo \o "**"
                 \o (IF item.readme # None /\ item.readme[1] # ""
                     THEN " - " \o item.readme[1] ELSE "")
                 \o (IF item.language # None /\ item.language[1] # ""
                     THEN " (Built with " \o item.language[1] \o ")" ELSE "")
        commits == IF item.commits # <<>>
                   THEN <<"Key commits: "
                          \o JoinWith(", ", SubSeq(item.commits, 1,
                                 IF Len(item.commits) < 3 THEN Len(item.commits) ELSE 3))>>
                   ELSE <<>>
    IN  <<first>> \o commits \o <<"GitHub: " \o item.url>>

RECURSIVE format_project_data(_)
\* the list of project_info strings, one per item, in the order of project_data
format_project_data(project_data) ==
    IF project_data = <<>> THEN <<>>
    ELSE <<ProjectInfo(Head(project_data))>> \o format_project_data(Tail(project_data))

RECURSIVE JoinTexts(_)
\* chr(10).join(texts)
JoinTexts(texts) ==
    IF texts = <<>> THEN <<"">>
    ELSE IF Len(texts) = 1 THEN Head(texts)
    ELSE Head(texts) \o JoinTexts(Tail(texts))

\* date.strftime('%B %d') and date.strftime('%B %d, %Y'); the days of the model lie
\* in one month of one year
StrfMonthDay(d) == "October " \o ToString(d)
StrfMonthDayYear(d) == "October " \o ToString(d) \o ", 2025"

\* create_linkedin_prompt: the f-string, as the values of its holes in order
create_linkedin_prompt(spotlight_projects_, other_projects, start_date, end_date) ==
    LET spotlight_formatted == format_project_data(spotlight_projects_)
        other_formatted == format_project_data(other_projects)
    IN  [date_range |-> StrfMonthDay(start_date) \o " to " \o StrfMonthDayYear(end_date),
         n_spotlight |-> Len(spotlight_projects_),
         n_other |-> Len(other_projects),
         spotlight |-> JoinTexts(spotlight_formatted),
         other |-> IF other_formatted # <<>> THEN JoinTexts(other_formatted)
                   ELSE <<"None">>]

\* GeneratePrecheck without the fallback to the first installed model
GeneratePrecheck_NoFallback(p, q, model) ==
    LET avail == check_ollama_available(p)
        available_models == get_available_models(q)
        is_in == \E i \in 1..Len(available_models) : available_models[i] = model
    IN  IF avail.raised \/ ~avail.available THEN [ok |-> FALSE, model |-> model]
        ELSE IF is_in THEN [ok |-> TRUE, model |-> model]
        ELSE [ok |-> FALSE, model |-> model]

\* generate_post_with_ollama up to the call of call_ollama: the availability check
\* and the choice of the model, from the outcomes p and q of the two "ollama list"
\* processes; ok = FALSE is an exception, which the function turns into None
GeneratePrecheck(p, q, model) ==
    LET avail == check_ollama_available(p)
        available_models == get_available_models(q)
        is_in == \E i \in 1..Len(available_models) : available_models[i] = model
    IN  IF avail.raised \/ ~avail.available THEN [ok |-> FALSE, model |-> model]
        ELSE IF is_in THEN [ok |-> TRUE, model |-> model]
        ELSE IF available_models # <<>> THEN [ok |-> TRUE, model |-> available_models[1]]
        ELSE [ok |-> FALSE, model |-> model]

\* generate_post_with_ollama from the return of call_ollama on: the cleaned text,
\* or None when call_ollama raised
GenerateResult(o) ==
    LET raw_output == call_ollama(o)
    IN  IF raw_output.raised THEN None ELSE clean_generated_post(raw_output.value)

-----------------------------------------------------------------------------
(***************************************************************************)
(* github_utils.py                                                         *)
(*                                                                         *)
(* A response of the platform is [status, ...]; status 0 stands for        *)
(* requests.get raising (no response at all).                              *)
(***************************************************************************)

\* One request for a page of the repository listing, as netlog keeps it
Request(api, arg) == [api |-> api, arg |-> arg]

RepoCap == 300
CommitCap == 10
CommitsKept == 5

Missing == "<missing key>"

\* The response to a request for a page the scenario does not list: an empty page
EmptyPage == [status |-> 200, n |-> 0]
PageResponse(resp, page) == IF page <= Len(resp) THEN resp[page] ELSE EmptyPage

\* commit['commit']['message'] of the k-th commit the platform lists, newest first
CommitMessage(k) == <<"commit " \o ToString(k), "", "details of " \o ToString(k)>>

\* TopCommits without the cut to five
TopCommits_Uncut(commits) == commits

\* commits[:5]
TopCommits(commits) ==
    SubSeq(commits, 1, IF Len(commits) < CommitsKept THEN Len(commits) ELSE CommitsKept)

RECURSIVE CommitPages(_, _, _)
\* the loop of fetch_repo_commits from the given page on, with the commits
\* accumulated so far
CommitPages(resp, page, commits) ==
    LET response == PageResponse(resp, page)
        extended == commits \o [i \in 1..response.n |-> CommitMessage(Len(commits) + i)]
    IN  IF response.status = 0 THEN [raised |-> TRUE, commits |-> <<>>]
        ELSE IF response.status = 409 THEN [raised |-> FALSE, commits |-> <<>>]
        ELSE IF response.status # 200 THEN [raised |-> FALSE, commits |-> <<>>]
        ELSE IF response.n = 0 THEN [raised |-> FALSE, commits |-> TopCommits(commits)]
        ELSE IF Len(extended) >= CommitCap
        THEN [raised |-> FALSE, commits |-> TopCommits(extended)]
        ELSE CommitPages(resp, page + 1, extended)

\* fetch_repo_commits: the commit messages of the first commits (at most 5), [] for
\* an empty repository (409) or any other status but 200; raised when a request raises
fetch_repo_commits(resp) == CommitPages(resp, 1, <<>>)

readme_files == <<"README.md", "README.rst", "README.txt", "README">>

RECURSIVE ReadmeVariants(_, _)
\* the loop of fetch_repo_readme from the i-th filename on; resp[i] is the response
\* to the request for readme_files[i]
ReadmeVariants(resp, i) ==
    IF i > Len(readme_files) THEN [raised |-> FALSE, readme |-> None]
    ELSE LET response == resp[i]
         IN  IF response.status = 0 THEN [raised |-> TRUE, readme |-> None]
             ELSE IF response.status = 200 /\ response.encoding = "base64"
             THEN IF ~response.decodes THEN [raised |-> TRUE, readme |-> None]
                  ELSE [raised |-> FALSE,
                        readme |-> <<response.head
                                     \o (IF response.longer THEN "..." ELSE "")>>]
             ELSE ReadmeVariants(resp, i + 1)

\* fetch_repo_readme: the first 500 characters of the first README found (head),
\* with "..." when it is longer; None when no variant is found
fetch_repo_readme(resp) == ReadmeVariants(resp, 1)

RECURSIVE FirstLines(_)
\* commit['commit']['message'].split('\n')[0] of every commit
FirstLines(commits) ==
    IF commits = <<>> THEN <<>>
    ELSE <<Head(Head(commits))>> \o FirstLines(Tail(commits))

\* ProcessRepo letting an exception out of the loop
ProcessRepo_Escapes(repo, b) ==
    LET commits == fetch_repo_commits(b.commits)
        readme_content == fetch_repo_readme(b.readme)
        none == Entry("", "", <<>>, None, None)
    IN  IF commits.raised THEN [kind |-> "raise", entry |-> none]
        ELSE IF commits.commits = <<>> THEN [kind |-> "skip", entry |-> none]
        ELSE IF readme_content.raised THEN [kind |-> "raise", entry |-> none]
        ELSE IF repo.html_url = Missing THEN [kind |-> "raise", entry |-> none]
        ELSE [kind |-> "entry",
              entry |-> Entry(repo.name, repo.html_url, FirstLines(commits.commits),
                              readme_content.readme, repo.language)]

\* fetch_github_activity, the body of the loop for one repository, except that
\* whatever it raises is caught: "entry" (appended), "skip" (no commits), "error"
\* (an exception, caught and logged)
ProcessRepo(repo, b) ==
    LET commits == fetch_repo_commits(b.commits)
        readme_content == fetch_repo_readme(b.readme)
        none == Entry("", "", <<>>, None, None)
    IN  IF commits.raised THEN [kind |-> "error", entry |-> none]
        ELSE IF commits.commits = <<>> THEN [kind |-> "skip", entry |-> none]
        ELSE IF readme_content.raised THEN [kind |-> "error", entry |-> none]
        ELSE IF repo.html_url = Missing THEN [kind |-> "error", entry |-> none]
        ELSE [kind |-> "entry",
              entry |-> Entry(repo.name, repo.html_url, FirstLines(commits.commits),
                              readme_content.readme, repo.language)]

\* if len(repos) >= 300 counting one more
StopsListing_AfterCap(page_repos, count) == page_repos = 0 \/ count > RepoCap

\* the two breaks of the loop of fetch_user_repos: the page is empty, or with it
\* the repositories number 300 or more
StopsListing(page_repos, count) == page_repos = 0 \/ count >= RepoCap

RECURSIVE ListPages(_, _, _, _, _, _)
\* the loop of fetch_user_repos from the given page on; pad counts the repositories
\* listed besides repos, all last updated before every window of the model; served
\* keeps the size of every page received
ListPages(listing, page, repos, pad, log, served) ==
    LET response == IF page <= Len(listing.pages) THEN listing.pages[page]
                    ELSE listing.beyond
        log2 == Append(log, Request("repos", ToString(page)))
        repos2 == repos \o response.items
        pad2 == pad + response.pad
        page_repos == Len(response.items) + response.pad
        served2 == Append(served, page_repos)
        fail(e) == [error |-> e, status |-> response.status, repos |-> <<>>,
                    log |-> log2, served |-> served]
    IN  IF response.status = 0 THEN fail("Unexpected error")
        ELSE IF response.status = 404 THEN fail("User not found on GitHub")
        ELSE IF response.status = 403
        THEN fail("GitHub API rate limit exceeded or token invalid")
        ELSE IF response.status # 200
        THEN fail("GitHub API error: " \o ToString(response.status))
        ELSE IF StopsListing(page_repos, Len(repos2) + pad2)
        THEN [error |-> "", status |-> 200, repos |-> repos2, log |-> log2,
              served |-> served2]
        ELSE ListPages(listing, page + 1, repos2, pad2, log2, served2)

NoToken == -1

\* fetch_user_repos: every repository of the pages, or the GitHubAPIError raised
\* (get_github_headers raises one when GITHUB_PAT is not set); status is the status
\* of the last response
fetch_user_repos(listing) ==
    IF ~listing.token
    THEN [error |-> "GITHUB_PAT not found in environment variables",
          status |-> NoToken, repos |-> <<>>, log |-> <<>>, served |-> <<>>]
    ELSE ListPages(listing, 1, <<>>, 0, <<>>, <<>>)

RECURSIVE filter_repos_by_date(_, _, _)
\* the repositories updated from the first instant of since_date to the last of
\* until_date, in order
filter_repos_by_date(repos, since_date, until_date) ==
    IF repos = <<>> THEN <<>>
    ELSE LET repo == Head(repos)
             rest == filter_repos_by_date(Tail(repos), since_date, until_date)
         IN  IF since_date <= repo.updated_at /\ repo.updated_at <= until_date
             THEN <<repo>> \o rest ELSE rest

-----------------------------------------------------------------------------
(***************************************************************************)
(* What the user and the environment can supply.                           *)
(***************************************************************************)

Days == 1..2
Usernames == {"", "octocat"}
Instructions == {"Make it more casual", "Shorten it"}
UpdatedAts == {2, 3}

RepoName(i) == "repo" \o ToString(i)
RepoUrl(i) == "https://github.com/octocat/repo" \o ToString(i)

\* The i-th repository of a listing, of one of three kinds
MetaKinds == {"python", "plain", "no_url"}
ListedKinds == {"python", "no_url"}
Meta(i, kind, updated_at) ==
    [name |-> RepoName(i),
     html_url |-> IF kind = "no_url" THEN Missing ELSE RepoUrl(i),
     updated_at |-> updated_at,
     language |-> IF kind = "plain" THEN None ELSE <<"Python">>]

\* Every listing of n repositories with the given kinds and update days
Metas(n, kinds, updated) ==
    { [i \in 1..n |-> Meta(i, f[i][1], f[i][2])] : f \in [1..n -> kinds \X updated] }

ListPage(items, pad) == [status |-> 200, items |-> items, pad |-> pad]
ListFails(status) == [status |-> status, items |-> <<>>, pad |-> 0]
\* pages are the first pages of the listing and every page after them is empty
Listing(pages) == [token |-> TRUE, pages |-> pages, beyond |-> ListPage(<<>>, 0)]
\* a listing of which every page is full
EndlessListing == [token |-> TRUE, pages |-> <<>>, beyond |-> ListPage(<<>>, 100)]
NoCredential == [token |-> FALSE, pages |-> <<>>, beyond |-> ListPage(<<>>, 0)]

FailingListings ==
    { NoCredential }
      \cup { Listing(<<ListFails(c)>>) : c \in {0, 401, 403, 404, 500} }
      \cup { Listing(<<ListPage(<<Meta(1, "python", 1)>>, 0), ListFails(500)>>) }

PagedListings ==
    { Listing(<<ListPage(<<Meta(1, "python", 1)>>, 0),
                ListPage(<<Meta(2, "plain", 3)>>, 0)>>),
      Listing(<<ListPage(<<Meta(1, "python", 3)>>, 99), ListPage(<<>>, 100),
                ListPage(<<Meta(2, "python", 3)>>, 99), ListPage(<<>>, 100)>>),
      EndlessListing }

Listings ==
    FailingListings \cup PagedListings
      \cup UNION { { Listing(<<ListPage(m, 0)>>) : m \in Metas(n, ListedKinds, UpdatedAts) }
                   : n \in 0..MaxRepos }

SessionListings ==
    { NoCredential, Listing(<<ListFails(404)>>) }
      \cup UNION { { Listing(<<ListPage(m, 0)>>) : m \in Metas(n, {"python"}, UpdatedAts) }
                   : n \in 0..2 }

Commits(n) == [status |-> 200, n |-> n]
CommitsFail(status) == [status |-> status, n |-> 0]
CommitScenarios ==
    { <<>>, <<CommitsFail(409)>>, <<CommitsFail(500)>>, <<CommitsFail(0)>>,
      <<Commits(2)>>, <<Commits(7)>>, <<Commits(12)>>,
      <<Commits(4), Commits(4), Commits(4)>>,
      <<Commits(5), Commits(5), CommitsFail(500)>>,
      <<Commits(3), CommitsFail(500)>>, <<Commits(3), CommitsFail(0)>> }

NotFound == [status |-> 404, encoding |-> "", decodes |-> FALSE, head |-> "",
             longer |-> FALSE]
Raises == [NotFound EXCEPT !.status = 0]
Found(head, longer) ==
    [status |-> 200, encoding |-> "base64", decodes |-> TRUE, head |-> head,
     longer |-> longer]
ReadmeScenarios ==
    { <<NotFound, NotFound, NotFound, NotFound>>,
      <<NotFound, Found("The first 500 characters of a README", TRUE), NotFound, NotFound>>,
      <<[Found("", FALSE) EXCEPT !.encoding = "none"], NotFound, NotFound, NotFound>>,
      <<[Found("", FALSE) EXCEPT !.decodes = FALSE], NotFound, NotFound, NotFound>>,
      <<Raises, NotFound, NotFound, NotFound>>,
      <<NotFound, NotFound, Raises, NotFound>> }

Behaviours == [commits : CommitScenarios, readme : ReadmeScenarios]

SessionBehaviours ==
    [commits : { <<>>, <<Commits(2)>> },
     readme : { <<Found("A short README", FALSE), NotFound, NotFound, NotFound>> }]

\* What the platform served for a repository, whatever the code made of it: whether
\* there is a commit in the window, and whether every response was a good one
HasCommits(b) == b.commits # <<>> /\ b.commits[1].status = 200 /\ b.commits[1].n > 0
Faultless(repo, b) ==
    /\ \A i \in 1..Len(b.commits) : b.commits[i].status = 200
    /\ \A i \in 1..Len(b.readme) :
          /\ b.readme[i].status # 0
          /\ (b.readme[i].status = 200 /\ b.readme[i].encoding = "base64")
                => b.readme[i].decodes
    /\ repo.html_url # Missing

\* What the platform served for the README of a repository: the first filename
\* variant that is found, none ("absent"), or before any is found a request that
\* raises or a content that does not decode ("fault")
RECURSIVE ReadmeServed(_)
ReadmeServed(resp) ==
    IF resp = <<>> THEN "absent"
    ELSE LET response == Head(resp)
         IN  IF response.status = 0 THEN "fault"
             ELSE IF response.status = 200 /\ response.encoding = "base64"
             THEN IF response.decodes THEN "found" ELSE "fault"
             ELSE ReadmeServed(Tail(resp))

\* every response to the commit requests was a good one and the listing gave the
\* repository its html_url
RestFaultless(repo, b) ==
    /\ \A i \in 1..Len(b.commits) : b.commits[i].status = 200
    /\ repo.html_url # Missing

-----------------------------------------------------------------------------
(***************************************************************************)
(* app.py: the session and its handlers.                                   *)
(***************************************************************************)

NoOutcome == [kind |-> "none", rc |-> 0, stdout |-> <<>>]

\* req before any request; every handler fills in what it knows
NoReq ==
    [op |-> "none", outcome |-> "none",
     username |-> "",                 \* the username of the form
     start |-> 0, end |-> 0,          \* the dates of the form
     p |-> NoOutcome,                 \* what check_ollama_available's process did
     q |-> NoOutcome,                 \* what get_available_models' process did, if run
     requested |-> "",                \* the model asked for
     spawned |-> <<>>,                \* the models "ollama run" was started with
     prompt |-> <<>>,                 \* the prompt it was started with
     exits |-> TRUE,                  \* whether that process ever exits
     proc |-> "none",                 \* how it exited
     value |-> None,                  \* what call_ollama returned
     result |-> None,                 \* what the handler got back
     prePost |-> None,                \* generated_post when the request began
     preHistory |-> <<>>,             \* chat_history when the request began
     processed |-> <<>>,              \* the repositories the loop has been through
     error |-> "",                    \* the message of the GitHubAPIError raised
     status |-> 0,                    \* the status of the last listing response
     served |-> <<>>]                 \* the sizes of the listing pages received

NoFetch == [todo |-> <<>>, activity_data |-> <<>>]

Init ==
    /\ github_data = None
    /\ generated_post = None
    /\ chat_history = <<>>
    /\ spotlight_projects = <<>>
    /\ pc = "idle"
    /\ fetch = NoFetch
    /\ netlog = <<>>
    /\ req = NoReq

Range(s) == { s[i] : i \in 1..Len(s) }

\* the text of a multiselect option
Display(item) == "**" \o item.repo \o "** (" \o ToString(Len(item.commits)) \o " commits)"

RECURSIVE Options(_)
Options(data) ==
    IF data = <<>> THEN <<>> ELSE <<Display(Head(data))>> \o Options(Tail(data))

\* the repository of the first option with this text
RepoOfDisplay(data, display_name) ==
    LET i == CHOOSE k \in 1..Len(data) :
                 /\ Display(data[k]) = display_name
                 /\ \A m \in 1..(k - 1) : Display(data[m]) # display_name
    IN  data[i].repo

\* the sequences without repetition over a set
RECURSIVE Arrangements(_)
Arrangements(S) ==
    {<<>>} \cup UNION { { <<x>> \o a : a \in Arrangements(S \ {x}) } : x \in S }

\* FetchReturned keeping the chat history when it replaces the activity set
FetchReturned_KeepsChat(data) ==
    /\ pc' = "idle"
    /\ fetch' = NoFetch
    /\ IF data # <<>>
       THEN /\ github_data' = data
            /\ generated_post' = None
            /\ spotlight_projects' =
                  IF Options(data) = Options(github_data) THEN spotlight_projects
                  ELSE <<>>
            /\ UNCHANGED chat_history
       ELSE UNCHANGED <<github_data, generated_post, chat_history, spotlight_projects>>

\* the handler's tail once fetch_github_activity has returned `data`, and the rest of
\* the script run: the multiselect keeps its value when its options are unchanged
\* and starts empty when they changed
FetchReturned(data) ==
    /\ pc' = "idle"
    /\ fetch' = NoFetch
    /\ IF data # <<>>
       THEN /\ github_data' = data
            /\ generated_post' = None
            /\ chat_history' = <<>>
            /\ spotlight_projects' =
                  IF Options(data) = Options(github_data) THEN spotlight_projects
                  ELSE <<>>
       ELSE UNCHANGED <<github_data, generated_post, chat_history, spotlight_projects>>

\* RejectsWindow letting a window of one day through
RejectsWindow_Strict(start_date, end_date) == start_date > end_date

\* elif start_date >= end_date: "Start date must be before end date"
RejectsWindow(start_date, end_date) == start_date >= end_date

\* "Fetch GitHub Activity" with no username or with a window that is rejected
FetchRejected(username, start_date, end_date) ==
    /\ pc = "idle"
    /\ username = "" \/ RejectsWindow(start_date, end_date)
    /\ netlog' = <<>>
    /\ req' = [NoReq EXCEPT !.op = "fetch", !.outcome = "rejected",
                            !.username = username,
                            !.start = start_date, !.end = end_date]
    /\ UNCHANGED <<github_data, generated_post, chat_history, spotlight_projects,
                   pc, fetch>>

\* "Fetch GitHub Activity": fetch_github_activity up to its loop
FetchSubmit(username, start_date, end_date, listing) ==
    /\ pc = "idle"
    /\ username # ""
    /\ ~RejectsWindow(start_date, end_date)
    /\ LET all_repos == fetch_user_repos(listing)
           filtered_repos == filter_repos_by_date(all_repos.repos, start_date, end_date)
           r == [NoReq EXCEPT !.op = "fetch", !.username = username,
                              !.start = start_date, !.end = end_date,
                              !.error = all_repos.error,
                              !.status = all_repos.status,
                              !.served = all_repos.served]
       IN  /\ netlog' = all_repos.log
           /\ IF all_repos.error # ""
              THEN /\ req' = [r EXCEPT !.outcome = "failed"]
                   /\ UNCHANGED <<github_data, generated_post, chat_history,
                                  spotlight_projects, pc, fetch>>
              ELSE IF filtered_repos = <<>>
              THEN /\ req' = [r EXCEPT !.outcome = "ok", !.result = <<>>]
                   /\ FetchReturned(<<>>)
              ELSE /\ req' = [r EXCEPT !.outcome = "running"]
                   /\ pc' = "fetch"
                   /\ fetch' = [todo |-> filtered_repos, activity_data |-> <<>>]
                   /\ UNCHANGED <<github_data, generated_post, chat_history,
                                  spotlight_projects>>

\* one turn of the loop of fetch_github_activity, the platform answering as b says;
\* after the last repository the function returns and the handler ends
FetchRepo(b) ==
    /\ pc = "fetch"
    /\ fetch.todo # <<>>
    /\ LET repo == Head(fetch.todo)
           done == ProcessRepo(repo, b)
           activity_data == IF done.kind = "entry"
                            THEN Append(fetch.activity_data, done.entry)
                            ELSE fetch.activity_data
           r == [req EXCEPT !.processed =
                    Append(@, [name |-> repo.name, has_commits |-> HasCommits(b),
                               faultless |-> Faultless(repo, b),
                               readme |-> ReadmeServed(b.readme),
                               rest_faultless |-> RestFaultless(repo, b)])]
       IN  /\ UNCHANGED netlog
           /\ IF done.kind = "raise"
              THEN /\ req' = [r EXCEPT !.outcome = "failed"]
                   /\ pc' = "idle"
                   /\ fetch' = NoFetch
                   /\ UNCHANGED <<github_data, generated_post, chat_history,
                                  spotlight_projects>>
              ELSE IF Tail(fetch.todo) = <<>>
              THEN /\ req' = [r EXCEPT !.outcome = "ok", !.result = activity_data]
                   /\ FetchReturned(activity_data)
              ELSE /\ req' = r
                   /\ fetch' = [todo |-> Tail(fetch.todo),
                                activity_data |-> activity_data]
                   /\ UNCHANGED <<github_data, generated_post, chat_history,
                                  spotlight_projects, pc>>

\* the multiselect changed: the script runs again and keeps the repository names
SelectSpotlight(selection) ==
    /\ pc = "idle"
    /\ github_data # None
    /\ spotlight_projects' =
          [i \in 1..Len(selection) |-> RepoOfDisplay(github_data, selection[i])]
    /\ spotlight_projects' # spotlight_projects
    /\ req' = [NoReq EXCEPT !.op = "select"]
    /\ UNCHANGED <<github_data, generated_post, chat_history, pc, fetch, netlog>>

RECURSIVE SpotlightData_SelectionOrder(_, _)
\* SpotlightData going through the names instead of through data
SpotlightData_SelectionOrder(data, names) ==
    IF names = <<>> THEN <<>>
    ELSE SelectSeq(data, LAMBDA item : item.repo = Head(names))
           \o SpotlightData_SelectionOrder(data, Tail(names))

RECURSIVE SpotlightData(_, _)
\* the items whose repository is among the names, in the order of data
SpotlightData(data, names) ==
    IF data = <<>> THEN <<>>
    ELSE IF Head(data).repo \in Range(names)
    THEN <<Head(data)>> \o SpotlightData(Tail(data), names)
    ELSE SpotlightData(Tail(data), names)

\* OtherData leaving nothing out
OtherData_All(data, names) == data

RECURSIVE OtherData(_, _)
\* the items whose repository is not among the names, in the order of data
OtherData(data, names) ==
    IF data = <<>> THEN <<>>
    ELSE IF Head(data).repo \in Range(names)
    THEN OtherData(Tail(data), names)
    ELSE <<Head(data)>> \o OtherData(Tail(data), names)

DefaultModel == "llama3"
RefineModel == "mistral"

\* "Generate LinkedIn Post": generate_post_with_ollama up to the start of the
\* "ollama run" process, p and q being what the two "ollama list" processes do
GenerateClick(start_date, end_date, p, q, exits) ==
    /\ pc = "idle"
    /\ github_data # None
    /\ spotlight_projects # <<>>
    /\ LET spotlight_data == SpotlightData(github_data, spotlight_projects)
           other_data == OtherData(github_data, spotlight_projects)
           pre == GeneratePrecheck(p, q, DefaultModel)
           r == [NoReq EXCEPT !.op = "generate", !.requested = DefaultModel,
                              !.p = p,
                              !.q = IF check_ollama_available(p).available
                                    THEN q ELSE NoOutcome,
                              !.prePost = generated_post,
                              !.preHistory = chat_history]
       IN  IF pre.ok
           THEN /\ pc' = "generate"
                /\ req' = [r EXCEPT !.outcome = "running", !.exits = exits,
                                    !.start = start_date, !.end = end_date,
                                    !.spawned = <<pre.model>>,
                                    !.prompt = create_linkedin_prompt(spotlight_data,
                                                  other_data, start_date, end_date)]
           ELSE /\ pc' = "idle"
                /\ exits
                /\ req' = [r EXCEPT !.outcome = "failed"]
    /\ UNCHANGED <<github_data, generated_post, chat_history, spotlight_projects,
                   fetch, netlog>>

\* the prompt of a refinement: the f-string, as the values of its holes
RefinePrompt(post, user_message) == [post |-> post, instruction |-> user_message]

\* "Send Message" up to the start of the "ollama run" process
RefineSend(user_message, exits) ==
    /\ pc = "idle"
    /\ Truthy(generated_post)
    /\ user_message # ""
    /\ Len(chat_history) < MaxHistory
    /\ chat_history' = Append(chat_history, [role |-> "user", content |-> user_message])
    /\ pc' = "refine"
    /\ req' = [NoReq EXCEPT !.op = "refine", !.outcome = "running", !.exits = exits,
                            !.requested = RefineModel, !.spawned = <<RefineModel>>,
                            !.prompt = RefinePrompt(generated_post, user_message),
                            !.prePost = generated_post,
                            !.preHistory = chat_history]
    /\ UNCHANGED <<github_data, generated_post, spotlight_projects, fetch, netlog>>

\* the "ollama run" process ends as o says, subprocess.run returns, and the handler
\* that waited for it runs to its end
\* req once the process has exited: what the request was and what it began with
Returned ==
    [NoReq EXCEPT !.op = req.op, !.requested = req.requested,
                  !.spawned = req.spawned, !.prePost = req.prePost,
                  !.preHistory = req.preHistory]

\* the "ollama run" process exits and subprocess.run stops waiting for it
RunExits ==
    /\ pc \in {"generate", "refine"}
    /\ req.exits
    /\ pc' = "idle"

RunReturns(o) ==
    /\ RunExits
    /\ IF pc = "generate"
       THEN LET generated == GenerateResult(o)
            IN  /\ req' = [Returned EXCEPT !.proc = o.kind,
                               !.value = call_ollama(o).value, !.result = generated,
                               !.outcome = IF Truthy(generated) THEN "ok" ELSE "failed"]
                /\ IF Truthy(generated)
                   THEN generated_post' = generated /\ chat_history' = <<>>
                   ELSE UNCHANGED <<generated_post, chat_history>>
       ELSE LET ai_response == call_ollama(o)
                accepted == ~ai_response.raised /\ Truthy(ai_response.value)
            IN  /\ req' = [Returned EXCEPT !.proc = o.kind, !.value = ai_response.value,
                               !.result = IF accepted THEN ai_response.value ELSE None,
                               !.outcome = IF accepted THEN "ok" ELSE "failed"]
                /\ IF accepted
                   THEN /\ generated_post' = StrStrip(ai_response.value)
                        /\ chat_history' =
                              Append(chat_history,
                                     [role |-> "ai",
                                      content |-> "Post updated successfully!"])
                   ELSE UNCHANGED <<generated_post, chat_history>>
    /\ UNCHANGED <<github_data, spotlight_projects, fetch, netlog>>

\* "Clear Chat"
ClearChat ==
    /\ pc = "idle"
    /\ Truthy(generated_post)
    /\ chat_history' = <<>>
    /\ req' = [NoReq EXCEPT !.op = "clear"]
    /\ UNCHANGED <<github_data, generated_post, spotlight_projects, pc, fetch, netlog>>

\* Regenerate keeping the chat history
Regenerate_KeepsChat ==
    /\ pc = "idle"
    /\ Truthy(generated_post)
    /\ generated_post' = None
    /\ req' = [NoReq EXCEPT !.op = "regenerate"]
    /\ UNCHANGED <<github_data, chat_history, spotlight_projects, pc, fetch, netlog>>

\* "Regenerate Post"
Regenerate ==
    /\ pc = "idle"
    /\ Truthy(generated_post)
    /\ generated_post' = None
    /\ chat_history' = <<>>
    /\ req' = [NoReq EXCEPT !.op = "regenerate"]
    /\ UNCHANGED <<github_data, spotlight_projects, pc, fetch, netlog>>

Next ==
    \/ \E u \in Usernames, s \in Days, e \in Days : FetchRejected(u, s, e)
    \/ \E u \in Usernames, s \in Days, e \in Days, l \in SessionListings :
          FetchSubmit(u, s, e, l)
    \/ \E b \in SessionBehaviours : FetchRepo(b)
    \/ \E sel \in Arrangements(Range(Options(github_data))) : SelectSpotlight(sel)
    \/ \E s \in Days, e \in Days, p \in ProbeOutcomes, q \in ListOutcomes,
          exits \in BOOLEAN : GenerateClick(s, e, p, q, exits)
    \/ \E m \in Instructions, exits \in BOOLEAN : RefineSend(m, exits)
    \/ \E o \in RunOutcomes : RunReturns(o)
    \/ ClearChat
    \/ Regenerate

Spec == Init /\ [][Next]_vars

\* One fetch in a new session, against everything the platform may answer
NextFetch ==
    \/ \E u \in Usernames, s \in Days, e \in Days :
          req.op = "none" /\ FetchRejected(u, s, e)
    \/ \E u \in Usernames, s \in Days, e \in Days, l \in Listings :
          req.op = "none" /\ FetchSubmit(u, s, e, l)
    \/ \E b \in Behaviours : FetchRepo(b)

SpecFetch == Init /\ [][NextFetch]_vars

\* A process that exits lets subprocess.run return; nothing makes a process exit
FairSpec == Spec /\ WF_pc(RunExits)

-----------------------------------------------------------------------------
(***************************************************************************)
(* The claims.                                                             *)
(***************************************************************************)

\* A refinement whose process has ended and whose invocation failed: the process
\* exited non-zero, could not be started, or returned nothing
RefineEnded == req.op = "refine" /\ pc = "idle" /\ req.proc # "none"
InvocationFailed ==
    \/ req.proc \in {"nonzero", "oserror"}
    \/ req.proc = "exit0" /\ ~Truthy(req.value)

\* C1: when the invocation made by a refinement fails (non-zero exit, process not
\* started, nothing returned), the post text after it is the post text before it.
C1_FailedRefineKeepsPost ==
    (RefineEnded /\ InvocationFailed) => generated_post = req.prePost

Marker == [role |-> "ai", content |-> "Post updated successfully!"]

\* C2: a refinement changes the chat history only when the invocation succeeds: on
\* success the history grows by the user instruction followed by one confirmation
\* marker, on failure it is the history before the call.
C2_HistoryChangesOnlyOnSuccess ==
    RefineEnded =>
        IF InvocationFailed THEN chat_history = req.preHistory
        ELSE \E m \in Instructions :
                chat_history = req.preHistory
                                 \o <<[role |-> "user", content |-> m], Marker>>

\* C3: when the generation process exits non-zero the invocation fails, and its
\* diagnostic text is not handed back as the post text, by the generation or by
\* the refinement.
C3_NonZeroExitFails ==
    (pc = "idle" /\ req.proc = "nonzero") =>
        /\ req.outcome = "failed"
        /\ req.result = None
        /\ generated_post = req.prePost

Names(data) == [i \in 1..Len(data) |-> data[i].repo]

OneToFive(data) ==
    \A i \in 1..Len(data) :
       Len(data[i].commits) >= 1 /\ Len(data[i].commits) <= CommitsKept

\* C4: every record a fetch returns (and every record it has assembled so far, and
\* every record the session holds) has at least one and at most five commit
\* messages, and a repository for which the platform served no commit is in none.
C4_CommitsFromOneToFive ==
    /\ OneToFive(github_data) /\ OneToFive(fetch.activity_data)
    /\ req.op = "fetch" => OneToFive(req.result)
    /\ \A i \in 1..Len(req.processed) :
          ~req.processed[i].has_commits =>
              /\ req.processed[i].name \notin Range(Names(fetch.activity_data))
              /\ req.outcome = "ok" => req.processed[i].name \notin Range(Names(req.result))

\* A fetch has returned two records, one with five commit messages and one with
\* fewer, and left out a repository that has no commit in the window.
C4_Witness ==
    /\ req.op = "fetch" /\ req.outcome = "ok" /\ Len(req.result) = 2
    /\ Len(req.result[1].commits) = CommitsKept
    /\ Len(req.result[2].commits) = 2
    /\ \E i \in 1..Len(req.processed) : ~req.processed[i].has_commits

\* C5: a fetch request with start >= end is rejected, and no request for the
\* repository listing went out and the loop over the repositories (the commit and
\* README requests) was not entered.
C5_BadWindowRejectedBeforeNetwork ==
    (req.op = "fetch" /\ req.start >= req.end) =>
        /\ req.outcome = "rejected"
        /\ netlog = <<>>
        /\ pc = "idle" /\ fetch = NoFetch

\* A request with a username and start = end has been rejected.
C5_Witness ==
    /\ req.op = "fetch" /\ req.username # "" /\ req.start = req.end
    /\ req.outcome = "rejected" /\ netlog = <<>>

\* What the environment did for a generation request
BackendAvailable == req.p.kind = "exit" /\ req.p.rc = 0
Installed == get_available_models(req.q)
GenerateDecided == req.op = "generate" /\ req.p.kind # "none"

\* C6: when the backend is available, a model is installed and the requested model
\* is not, the generation process is started with the first installed model, and
\* the request has not failed.
C6_FallsBackToFirstInstalled ==
    (GenerateDecided /\ BackendAvailable /\ Installed # <<>>
       /\ req.requested \notin Range(Installed)) =>
        /\ pc = "generate" /\ req.outcome = "running"
        /\ req.spawned = <<Installed[1]>>

\* The requested llama3 is not installed and the process runs mistral:latest.
C6_Witness ==
    /\ pc = "generate" /\ req.requested = "llama3"
    /\ BackendAvailable /\ Installed = <<"mistral:latest">>
    /\ req.spawned = <<"mistral:latest">>

\* C7: when the availability probe fails or no model is installed, the request
\* fails and no generation process is started for it.
C7_NoBackendNoProcess ==
    (GenerateDecided /\ (~BackendAvailable \/ Installed = <<>>)) =>
        /\ pc = "idle" /\ req.outcome = "failed"
        /\ req.spawned = <<>>
        /\ generated_post = req.prePost

\* The probe exited 1 and the request has failed without a process.
C7_Witness ==
    /\ req.op = "generate" /\ req.p.kind = "exit" /\ req.p.rc = 1
    /\ req.outcome = "failed" /\ req.spawned = <<>>

\* C8: every invocation ends, with a text or a failure, even when the generation
\* process never exits.
C8_InvocationEnds == (pc \in {"generate", "refine"}) ~> (pc = "idle")

\* the permutations of a sequence
Reorderings(s) == { a \in Arrangements(Range(s)) : Len(a) = Len(s) }

\* C9: the prompt does not depend on the order in which the records of the
\* spotlight list and of the other list are supplied.
C9_PromptIgnoresRecordOrder ==
    (pc = "generate") =>
        LET spotlight_data == SpotlightData(github_data, spotlight_projects)
            other_data == OtherData(github_data, spotlight_projects)
        IN  \A s \in Reorderings(spotlight_data), o \in Reorderings(other_data) :
               create_linkedin_prompt(s, o, req.start, req.end) = req.prompt

\* C9 as amended: the prompt renders the records in the order supplied, and the
\* generate handler supplies both lists in the order of the fetched set: the prompt
\* does not depend on the order in which the spotlight projects were selected.
C9_PromptIgnoresSelectionOrder ==
    (pc = "generate") =>
        \A names \in Reorderings(spotlight_projects) :
           create_linkedin_prompt(SpotlightData(github_data, names),
                                  OtherData(github_data, names),
                                  req.start, req.end) = req.prompt

\* Two spotlight projects were selected in the reverse of the fetched order.
C9_Witness ==
    /\ pc = "generate" /\ Len(github_data) = 2
    /\ spotlight_projects = <<github_data[2].repo, github_data[1].repo>>

RECURSIVE Restrict(_, _)
\* the members of S in a sequence, in its order
Restrict(s, S) ==
    IF s = <<>> THEN <<>>
    ELSE IF Head(s) \in S THEN <<Head(s)>> \o Restrict(Tail(s), S)
    ELSE Restrict(Tail(s), S)

\* the repositories of the loop for which the platform served a commit and every
\* response was a good one
Sound == { req.processed[i].name : i \in { k \in 1..Len(req.processed) :
              req.processed[k].has_commits /\ req.processed[k].faultless } }
ProcessedNames == [i \in 1..Len(req.processed) |-> req.processed[i].name]

\* C10: a failure on one repository never aborts the fetch: the loop goes on to the
\* end, and the result holds a record for every repository with a commit in the
\* window and no failure of its own, in the order of the listing.
C10_FailuresAreIsolated ==
    (req.op = "fetch" /\ req.processed # <<>>) =>
        /\ req.outcome \in {"running", "ok"}
        /\ req.outcome = "ok" =>
              Restrict(Names(req.result), Sound) = Restrict(ProcessedNames, Sound)

\* Of three repositories the second failed and the first and the third are returned.
C10_Witness ==
    /\ req.op = "fetch" /\ req.outcome = "ok" /\ Len(req.processed) = 3
    /\ ~req.processed[2].faultless /\ req.processed[2].has_commits
    /\ Names(req.result) = <<req.processed[1].name, req.processed[3].name>>

\* the kind of failure a message of fetch_user_repos stands for, read in favour of
\* the code: the message for 403 counts as the credential being rejected
KindOfMessage(error) ==
    CASE error = "GITHUB_PAT not found in environment variables" -> "AuthError"
      [] error = "GitHub API rate limit exceeded or token invalid" -> "AuthError"
      [] error = "User not found on GitHub" -> "NotFoundError"
      [] OTHER -> "TransportError"

\* the kind of failure the cause calls for
KindOfCause(status) ==
    CASE status \in {NoToken, 401, 403} -> "AuthError"
      [] status = 404 -> "NotFoundError"
      [] OTHER -> "TransportError"

\* C11: a listing request that fails (no credential, or a status other than 200)
\* fails the whole fetch with no partial result, and the failure is of the kind of
\* its cause: AuthError for no credential, 401 and 403, NotFoundError for 404,
\* TransportError for any other status.
C11_ListingFailureKinds ==
    (req.op = "fetch" /\ req.error # "" /\ req.status # 0) =>
        /\ req.outcome = "failed" /\ req.result = None
        /\ pc = "idle" /\ fetch = NoFetch
        /\ KindOfMessage(req.error) = KindOfCause(req.status)

RECURSIVE Sum(_)
Sum(s) == IF s = <<>> THEN 0 ELSE Head(s) + Sum(Tail(s))

\* after the k-th page received the listing is to stop: the page is empty or the
\* repositories received number 300 or more
Stopping(k) == req.served[k] = 0 \/ Sum(SubSeq(req.served, 1, k)) >= RepoCap

\* C12: the listing requests pages 1, 2, 3, ... in order; it goes on after every
\* page that is neither empty nor reaches the cap of 300, and the last page it
\* requests is the first that is empty, reaches the cap or fails. It ends whatever
\* the platform answers, within 300 pages.
C12_ListingStops ==
    (req.op = "fetch" /\ req.outcome # "rejected" /\ req.status # NoToken) =>
        /\ \A i \in 1..Len(netlog) : netlog[i] = Request("repos", ToString(i))
        /\ \A k \in 1..Len(req.served) : Stopping(k) <=> k = Len(netlog)
        /\ Len(netlog) = Len(req.served) + (IF req.error = "" THEN 0 ELSE 1)
        /\ Len(netlog) >= 1 /\ Len(netlog) <= RepoCap + 1

\* Every page was full: the third reached the cap and no fourth was requested.
C12_Witness ==
    /\ req.op = "fetch" /\ req.error = ""
    /\ req.served = <<100, 100, 100>> /\ Len(netlog) = 3

\* C13: the README lookup never removes a repository that has a commit in the
\* window: when no filename variant is found, and when a README request raises or
\* the content does not decode, its record is returned, with no excerpt.
C13_ReadmeNeverRemoves ==
    (req.op = "fetch" /\ req.outcome = "ok") =>
        \A i \in 1..Len(req.processed) :
           LET repo == req.processed[i]
           IN  (repo.has_commits /\ repo.rest_faultless) =>
                  \E k \in 1..Len(req.result) :
                     /\ req.result[k].repo = repo.name
                     /\ repo.readme \in {"absent", "fault"} =>
                           req.result[k].readme = None

\* a code-fence line or a "Here is" / "Here's" preamble line
IsArtifact(l) == l \in {Fence, "Here's your post:", "Here is the post"}
Blank(l) == LineStrip(l) = ""
Content(l) == ~Blank(l) /\ ~IsArtifact(LineStrip(l))

\* C14: the cleaned text of a raw output has no code-fence line and no preamble
\* line, never two blank lines in a row, and two content lines that two or more
\* blank lines separated in the raw output are separated by exactly one blank line.
C14_CleanedKeepsOneBlankLine ==
    (req.op = "generate" /\ req.proc = "exit0") =>
        LET raw == req.value
            cleaned == req.result
        IN  /\ \A i \in 1..Len(cleaned) : ~IsArtifact(cleaned[i])
            /\ \A i \in 1..(Len(cleaned) - 1) :
                  ~(Blank(cleaned[i]) /\ Blank(cleaned[i + 1]))
            /\ \A i \in 1..Len(raw), j \in 1..Len(raw) :
                  (/\ i + 3 <= j /\ Content(raw[i]) /\ Content(raw[j])
                   /\ \A k \in (i + 1)..(j - 1) : Blank(raw[k])) =>
                     \E m \in 1..(Len(cleaned) - 2) :
                        /\ cleaned[m] = LineStrip(raw[i])
                        /\ cleaned[m + 1] = ""
                        /\ cleaned[m + 2] = LineStrip(raw[j])

\* C15: after a fetch that completes without error the activity set the session
\* holds is the set that fetch returned, an empty set included.
C15_FetchReplacesActivitySet ==
    (req.op = "fetch" /\ req.outcome = "ok") => github_data = req.result

IsPrefix(a, b) == Len(a) <= Len(b) /\ SubSeq(b, 1, Len(a)) = a

\* C16: every step leaves the chat history as it is, appends turns at its end or
\* empties it; and the step of a fetch that replaces the activity set, of a
\* generation that replaces the post and of a regenerate empties it.
C16_HistoryAppendOnly ==
    [][/\ chat_history' = <<>> \/ IsPrefix(chat_history, chat_history')
       /\ (req'.op = "fetch" /\ req'.outcome = "ok" /\ req'.result # <<>>) =>
             chat_history' = <<>>
       /\ (req'.op = "generate" /\ req'.outcome = "ok") => chat_history' = <<>>
       /\ req'.op = "regenerate" => chat_history' = <<>>]_vars

\* A generation has replaced a post that had a chat history, which is now empty.
C16_Witness ==
    /\ req.op = "generate" /\ req.outcome = "ok" /\ Truthy(req.prePost)
    /\ req.preHistory # <<>> /\ chat_history = <<>>

\* how many times x occurs in s
Count(x, s) == Cardinality({ k \in 1..Len(s) : s[k] = x })

\* C17: for the fetched set and the selection of any state, the spotlight list and
\* the other list partition the fetched set: every fetched record is in exactly one
\* of the two, no other record is in either, and these are the lists the prompt of
\* a generation was built from.
C17_ListsPartitionFetchedSet ==
    LET spotlight_data == SpotlightData(github_data, spotlight_projects)
        other_data == OtherData(github_data, spotlight_projects)
    IN  /\ \A i \in 1..Len(github_data) :
              Count(github_data[i], spotlight_data)
                + Count(github_data[i], other_data) = 1
        /\ Range(spotlight_data) \cup Range(other_data) \subseteq Range(github_data)
        /\ pc = "generate" =>
              /\ req.prompt.n_spotlight = Len(spotlight_data)
              /\ req.prompt.n_spotlight + req.prompt.n_other = Len(github_data)

\* A generation for two fetched records, one of them selected.
C17_Witness ==
    /\ pc = "generate" /\ Len(github_data) = 2 /\ Len(spotlight_projects) = 1
    /\ req.prompt.n_spotlight = 1 /\ req.prompt.n_other = 1

\* C18: in every state a chat history that is not empty comes with a post text that
\* is not empty, and every "ai" turn of the history follows a "user" turn.
C18_HistoryHasPost ==
    /\ chat_history # <<>> => Truthy(generated_post)
    /\ \A i \in 1..Len(chat_history) :
          chat_history[i].role = "ai" =>
              i > 1 /\ chat_history[i - 1].role = "user"

\* A refinement that failed followed by one that was confirmed.
C18_Witness ==
    /\ Len(chat_history) = 3 /\ chat_history[3] = Marker
    /\ chat_history[1].role = "user" /\ chat_history[2].role = "user"
    /\ pc = "idle" /\ Truthy(generated_post)

=============================================================================
